---- MODULE Spec2Model ----
(***************************************************************************)
(* Model of src/scraper.py: CompetitorScraper (load_config,                *)
(* scrape_competitor, scrape_all_competitors, generate_report,             *)
(* save_report, run_daily_scrape) and main.                                *)
(*                                                                         *)
(* Strings the code slices, splits or tests by prefix (link targets,       *)
(* listing URLs, element texts) are sequences of one-character strings.    *)
(* Names of competitors are atomic strings: the code only compares them.   *)
(* The clock counts half-days; isoformat() keeps the whole reading,        *)
(* strftime('%Y-%m-%d') keeps the calendar day.                            *)
(***************************************************************************)
EXTENDS Integers, Sequences, FiniteSets, TLC

VARIABLES
    pc,            \* position of main/run_daily_scrape
    config_file,   \* what config.json holds on disk
    dom,           \* the elements the sites' pages are made of (environment)
    config,        \* self.config
    idx,           \* position of the for loop of scrape_all_competitors
    all_articles,  \* all_articles of scrape_all_competitors / articles of run_daily_scrape
    clock,         \* datetime.now()
    report,        \* report of run_daily_scrape (lines of the markdown text)
    files,         \* files written under reports/
    stdout,        \* last outcome line printed
    raised,        \* the exception that left main, "none" if none
    served,        \* history: what each processed competitor's site answered
    fetches,       \* history: number of session.get calls
    pauses         \* history: the durations passed to time.sleep

vars == <<pc, config_file, dom, config, idx, all_articles, clock, report,
          files, stdout, raised, served, fetches, pauses>>

\* ---------------------------------------------------------------- bounds
MaxPage == 2
MaxArticlesCfg == 2
MaxClock == 2
MaxReportLen == 3

\* ------------------------------------------------------- string helpers
Min(a, b) == IF a <= b THEN a ELSE b
Max(a, b) == IF a >= b THEN a ELSE b

\* s[:n]
PySliceTo(s, n) ==
    IF n >= 0 THEN SubSeq(s, 1, Min(n, Len(s)))
    ELSE SubSeq(s, 1, Max(Len(s) + n, 0))

\* s.startswith(p)
StartsWith(s, p) == Len(s) >= Len(p) /\ SubSeq(s, 1, Len(p)) = p

RECURSIVE Split(_, _)
\* s.split(sep) for a one-character sep
Split(s, sep) ==
    IF \A i \in 1..Len(s) : s[i] # sep THEN <<s>>
    ELSE LET i == CHOOSE j \in 1..Len(s) :
                      s[j] = sep /\ \A k \in 1..(j - 1) : s[k] # sep
         IN <<SubSeq(s, 1, i - 1)>> \o Split(SubSeq(s, i + 1, Len(s)), sep)

RECURSIVE Join(_, _)
\* sep.join(parts)
Join(parts, sep) ==
    IF parts = <<>> THEN <<>>
    ELSE IF Len(parts) = 1 THEN parts[1]
    ELSE parts[1] \o <<sep>> \o Join(Tail(parts), sep)

RECURSIVE LStrip(_)
LStrip(s) == IF s # <<>> /\ Head(s) = " " THEN LStrip(Tail(s)) ELSE s

RECURSIVE RStrip(_)
RStrip(s) ==
    IF s # <<>> /\ s[Len(s)] = " " THEN RStrip(SubSeq(s, 1, Len(s) - 1)) ELSE s

\* s.strip()
Strip(s) == RStrip(LStrip(s))

HTTP == <<"h", "t", "t", "p">>

\* datetime.now().isoformat()
IsoFormat(t) == t
\* datetime.now().strftime('%Y-%m-%d')
StrfDate(t) == t \div 2

\* ------------------------------------------------------------ the inputs
\* a character string as the sequence of its characters
OriginA == <<"h", "t", "t", "p", ":", "/", "/", "a">>
OriginC == <<"h", "t", "t", "p", "s", ":", "/", "/", "c", ".", "d">>
UrlA == OriginA \o <<"/", "b", "/", "i">>
UrlC == OriginC \o <<"/">>
UrlC0 == OriginC
RelSlash == <<"/", "p">>
RelBare == <<"p">>
AbsHttp == <<"h", "t", "t", "p", ":", "/", "/", "e", "/", "q">>
AbsHttps == <<"h", "t", "t", "p", "s", ":", "/", "/", "e">>
HttpLike == <<"h", "t", "t", "p", "x">>

Names == {"X", "Y"}
ListingUrls == {UrlA, UrlC, UrlC0}
SiteUrl(name) == IF name = "Y" THEN UrlC ELSE UrlA

\* an element matched by the title selector: its text and its href attribute
Element(text, has_href, href) ==
    [text |-> text, has_href |-> has_href, href |-> href]

SmallElements ==
    { Element(<<" ", "a">>, TRUE, RelSlash),
      Element(<<"b">>, FALSE, <<>>) }

RichElements ==
    { Element(<<" ", "a", " ">>, TRUE, h) :
        h \in {<<>>, RelSlash, RelBare, AbsHttp, AbsHttps, HttpLike} }
    \cup { Element(<<>>, FALSE, <<>>) }

SeqsUpTo(S, n) == UNION {[1..k -> S] : k \in 0..n}

\* soup.select(title selector) of the pages a site can serve
Pages(elems) == SeqsUpTo(elems, MaxPage)

\* what session.get .. soup.select does for one competitor: the matched
\* elements, or the exception raised on the way
Responses(elems) ==
    { [error |-> e, page |-> <<>>] : e \in {"fetch", "status", "parse"} }
    \cup { [error |-> "none", page |-> p] : p \in Pages(elems) }

Competitor(name, url) == [name |-> name, blog_url |-> url]

Config(competitors, max_articles, delay) ==
    [competitors |-> competitors, max_articles |-> max_articles,
     delay_between_requests |-> delay]

DefaultMaxArticles == 5
DefaultDelay == 2

OpenAIUrl == <<"h", "t", "t", "p", "s", ":", "/", "/", "o", "p", "e", "n", "a", "i",
               ".", "c", "o", "m", "/", "b", "l", "o", "g">>
GoogleAIUrl == <<"h", "t", "t", "p", "s", ":", "/", "/", "a", "i", ".", "g", "o", "o",
                 "g", "l", "e", "b", "l", "o", "g", ".", "c", "o", "m", "/">>

get_default_config ==
    Config(<<Competitor("OpenAI", OpenAIUrl), Competitor("Google AI", GoogleAIUrl)>>,
           DefaultMaxArticles, DefaultDelay)

NoConfig == Config(<<>>, 0, 0)

\* competitor mappings: keys are unique, iteration is insertion order
Mappings ==
    { [i \in 1..Len(s) |-> Competitor(s[i], SiteUrl(s[i]))] :
        s \in { t \in SeqsUpTo(Names, Cardinality(Names)) :
                  \A i, j \in 1..Len(t) : i # j => t[i] # t[j] } }

File(status, content) == [status |-> status, content |-> content]

BrokenFiles == { File("missing", NoConfig), File("malformed", NoConfig) }

ConfigFiles ==
    BrokenFiles \cup
    { File("ok", Config(m, k, d)) :
        m \in Mappings, k \in 0..MaxArticlesCfg, d \in {0, DefaultDelay} }

\* one competitor, every listing URL
SingleConfigFiles ==
    { File("ok", Config(<<Competitor(n, u)>>, k, 0)) :
        n \in {"X"}, u \in ListingUrls, k \in 0..MaxArticlesCfg }

\* ------------------------------------------------------------- the code
\* MakeArticle without lines 80-83: the link target is kept as found
MakeArticleRaw(name, blog_url, el, now) ==
    [title |-> Strip(el.text),
     url |-> IF el.has_href THEN el.href ELSE <<>>,
     source |-> name,
     scraped_at |-> IsoFormat(now)]

\* lines 73-85: one article of scrape_competitor
MakeArticle(name, blog_url, el, now) ==
    LET url == IF el.has_href THEN el.href ELSE <<>>
        base_url == Join(PySliceTo(Split(blog_url, "/"), 3), "/")
    IN [title |-> Strip(el.text),
        url |-> IF url # <<>> /\ ~StartsWith(url, HTTP) THEN base_url \o url ELSE url,
        source |-> name,
        scraped_at |-> IsoFormat(now)]

\* scrape_competitor without the except clause: the error leaves the call
scrape_competitor_nocatch(name, c, resp, max_articles, now) ==
    LET title_elements == PySliceTo(resp.page, max_articles)
    IN [articles |-> [i \in 1..Len(title_elements) |->
                         MakeArticle(name, c.blog_url, title_elements[i], now)],
        exc |-> resp.error]

\* scrape_competitor without the [:max_articles] slice
scrape_competitor_noslice(name, c, resp, max_articles, now) ==
    IF resp.error # "none" THEN [articles |-> <<>>, exc |-> "none"]
    ELSE [articles |-> [i \in 1..Len(resp.page) |->
                           MakeArticle(name, c.blog_url, resp.page[i], now)],
          exc |-> "none"]

\* scrape_competitor: the articles returned for what the site answered, and
\* the exception that leaves the call ("none": `except Exception` catches all).
\* One clock reading stamps the whole block.
scrape_competitor(name, c, resp, max_articles, now) ==
    IF resp.error # "none" THEN [articles |-> <<>>, exc |-> "none"]
    ELSE LET title_elements == PySliceTo(resp.page, max_articles)
         IN [articles |-> [i \in 1..Len(title_elements) |->
                              MakeArticle(name, c.blog_url, title_elements[i], now)],
             exc |-> "none"]

\* extend that inserts at the front
extend_front(list, items) == items \o list

\* extend that drops what was collected when a competitor yields nothing
extend_rollback(list, items) == IF items = <<>> THEN <<>> ELSE list \o items

\* line 100: all_articles.extend(articles)
extend(list, items) == list \o items

Line(kind, a, b) == [kind |-> kind, a |-> a, b |-> b]

RECURSIVE GroupBySourceNewestFirst(_, _, _)
\* GroupBySource with a new key put before the keys already there
GroupBySourceNewestFirst(articles, keys, by_source) ==
    IF articles = <<>> THEN [keys |-> keys, by_source |-> by_source]
    ELSE LET article == Head(articles)
             source == article.source
         IN IF source \notin DOMAIN by_source
            THEN GroupBySourceNewestFirst(Tail(articles), <<source>> \o keys,
                                          by_source @@ (source :> <<article>>))
            ELSE GroupBySourceNewestFirst(Tail(articles), keys,
                               [by_source EXCEPT ![source] = Append(@, article)])

RECURSIVE GroupBySource(_, _, _)
\* lines 120-125: by_source as (keys in insertion order, key -> articles)
GroupBySource(articles, keys, by_source) ==
    IF articles = <<>> THEN [keys |-> keys, by_source |-> by_source]
    ELSE LET article == Head(articles)
             source == article.source
         IN IF source \notin DOMAIN by_source
            THEN GroupBySource(Tail(articles), Append(keys, source),
                               by_source @@ (source :> <<article>>))
            ELSE GroupBySource(Tail(articles), keys,
                               [by_source EXCEPT ![source] = Append(@, article)])

\* lines 132-135
ArticleLines(article) ==
    <<Line("title", article.title, 0)>>
    \o (IF article.url # <<>> THEN <<Line("link", article.url, 0)>> ELSE <<>>)
    \o <<Line("scraped", <<>>, article.scraped_at)>>

RECURSIVE ArticlesLines(_)
ArticlesLines(articles) ==
    IF articles = <<>> THEN <<>>
    ELSE ArticleLines(Head(articles)) \o ArticlesLines(Tail(articles))

RECURSIVE SectionLines(_, _)
\* lines 128-135
SectionLines(keys, by_source) ==
    IF keys = <<>> THEN <<>>
    ELSE <<Line("section", Head(keys), Len(by_source[Head(keys)]))>>
         \o ArticlesLines(by_source[Head(keys)])
         \o SectionLines(Tail(keys), by_source)

\* generate_report: the lines of the markdown text
generate_report(articles, now) ==
    LET g == GroupBySource(articles, <<>>, <<>>)
    IN <<Line("heading", "AI Competitive Intelligence Report", 0),
         Line("date", "Date", StrfDate(now)),
         Line("count", "Articles Found", Len(articles)),
         Line("summary", "Summary", 0)>>
       \o SectionLines(g.keys, g.by_source)

\* save_report: the file name
ReportFileName(now) == StrfDate(now)

\* --------------------------------------------------------- the program
NoReport == <<>>

InitWith(file, elems) ==
    /\ pc = "load"
    /\ config_file = file
    /\ dom = elems
    /\ config = NoConfig
    /\ idx = 1
    /\ all_articles = <<>>
    /\ clock = 0
    /\ report = NoReport
    /\ files = {}
    /\ stdout = "Starting"
    /\ raised = "none"
    /\ served = <<>>
    /\ fetches = 0
    /\ pauses = <<>>

Init == \E f \in ConfigFiles : InitWith(f, SmallElements)

\* LoadConfig whose load_config catches nothing
LoadConfigNoCatch ==
    /\ pc = "load"
    /\ config' = IF config_file.status = "ok" THEN config_file.content ELSE config
    /\ pc' = IF config_file.status = "ok" THEN "loop" ELSE "raised"
    /\ raised' = IF config_file.status = "malformed" THEN "JSONDecodeError"
                 ELSE IF config_file.status = "missing" THEN "FileNotFoundError"
                 ELSE raised
    /\ UNCHANGED <<config_file, dom, idx, all_articles, clock, report, files,
                   stdout, served, fetches, pauses>>

\* main, line 174: CompetitorScraper() calls load_config; FileNotFoundError is
\* the one exception it catches, a JSON error leaves main
LoadConfig ==
    /\ pc = "load"
    /\ config' = IF config_file.status = "ok" THEN config_file.content
                 ELSE IF config_file.status = "missing" THEN get_default_config
                 ELSE config
    /\ pc' = IF config_file.status = "malformed" THEN "raised" ELSE "loop"
    /\ raised' = IF config_file.status = "malformed" THEN "JSONDecodeError" ELSE raised
    /\ UNCHANGED <<config_file, dom, idx, all_articles, clock, report, files,
                   stdout, served, fetches, pauses>>

\* lines 98-100: one competitor of the for loop, scraped and appended
ScrapeStep ==
    /\ pc = "loop"
    /\ idx <= Len(config.competitors)
    /\ \E resp \in Responses(dom) :
          LET c == config.competitors[idx]
              r == scrape_competitor(c.name, c, resp, config.max_articles, clock)
          IN /\ all_articles' = IF r.exc = "none" THEN extend(all_articles, r.articles)
                                ELSE all_articles
             /\ served' = Append(served, [name |-> c.name, resp |-> resp])
             /\ raised' = r.exc
             /\ pc' = IF r.exc = "none" THEN "sleep" ELSE "raised"
    /\ fetches' = fetches + 1
    /\ UNCHANGED <<config_file, dom, config, idx, clock, report, files, stdout,
                   pauses>>

\* Sleep that pauses only after a competitor that answered
SleepOnSuccess ==
    /\ pc = "sleep"
    /\ pauses' = IF served[Len(served)].resp.error = "none"
                 THEN Append(pauses, config.delay_between_requests)
                 ELSE pauses
    /\ idx' = idx + 1
    /\ pc' = "loop"
    /\ UNCHANGED <<config_file, dom, config, all_articles, clock, report, files,
                   stdout, raised, served, fetches>>

\* line 103: time.sleep, then the next competitor
Sleep ==
    /\ pc = "sleep"
    /\ pauses' = Append(pauses, config.delay_between_requests)
    /\ idx' = idx + 1
    /\ pc' = "loop"
    /\ UNCHANGED <<config_file, dom, config, all_articles, clock, report, files,
                   stdout, raised, served, fetches>>

\* line 105: the loop is over, scrape_all_competitors returns
ReturnAll ==
    /\ pc = "loop"
    /\ idx > Len(config.competitors)
    /\ pc' = "returned"
    /\ UNCHANGED <<config_file, dom, config, idx, all_articles, clock, report,
                   files, stdout, raised, served, fetches, pauses>>

\* GenerateReport without the `if articles:` test of line 160
GenerateReportAlways ==
    /\ pc = "returned"
    /\ report' = generate_report(all_articles, clock)
    /\ pc' = "save"
    /\ UNCHANGED <<config_file, dom, config, idx, all_articles, clock, files,
                   stdout, raised, served, fetches, pauses>>

\* lines 160-162
GenerateReport ==
    /\ pc = "returned"
    /\ all_articles # <<>>
    /\ report' = generate_report(all_articles, clock)
    /\ pc' = "save"
    /\ UNCHANGED <<config_file, dom, config, idx, all_articles, clock, files,
                   stdout, raised, served, fetches, pauses>>

\* lines 163-167 and save_report: the write succeeds or raises OSError
SaveReport ==
    /\ pc = "save"
    /\ \E ok \in BOOLEAN :
          /\ files' = IF ok
                      THEN { f \in files : f.name # ReportFileName(clock) }
                           \cup { [name |-> ReportFileName(clock), content |-> report] }
                      ELSE files
          /\ stdout' = IF ok THEN "Daily scrape completed successfully!" ELSE stdout
          /\ raised' = IF ok THEN raised ELSE "OSError"
          /\ pc' = IF ok THEN "done" ELSE "raised"
    /\ UNCHANGED <<config_file, dom, config, idx, all_articles, clock, report,
                   served, fetches, pauses>>

\* lines 168-169
NoArticles ==
    /\ pc = "returned"
    /\ all_articles = <<>>
    /\ stdout' = "No articles found during scraping."
    /\ pc' = "done"
    /\ UNCHANGED <<config_file, dom, config, idx, all_articles, clock, report,
                   files, raised, served, fetches, pauses>>

\* time passes while the process runs
Tick ==
    /\ pc \notin {"done", "raised"}
    /\ clock < MaxClock
    /\ clock' = clock + 1
    /\ UNCHANGED <<pc, config_file, dom, config, idx, all_articles, report, files,
                   stdout, raised, served, fetches, pauses>>

Next ==
    \/ LoadConfig
    \/ ScrapeStep
    \/ Sleep
    \/ ReturnAll
    \/ GenerateReport
    \/ SaveReport
    \/ NoArticles
    \/ Tick

Spec == Init /\ [][Next]_vars

\* one competitor, every listing URL and every kind of link target
InitUrl == \E f \in SingleConfigFiles : InitWith(f, RichElements)

SpecUrl == InitUrl /\ [][Next]_vars

\* generate_report called on any article sequence
ReportArticles ==
    { [title |-> t, url |-> u, source |-> n, scraped_at |-> 0] :
        t \in {<<"a">>, <<"b">>}, u \in {<<>>, AbsHttp}, n \in {"X", "Y", "Z"} }

InitReport ==
    /\ pc = "returned"
    /\ config_file = File("ok", NoConfig)
    /\ dom = {}
    /\ config = NoConfig
    /\ idx = 1
    /\ all_articles \in SeqsUpTo(ReportArticles, MaxReportLen)
    /\ clock = 0
    /\ report = NoReport
    /\ files = {}
    /\ stdout = "Starting"
    /\ raised = "none"
    /\ served = <<>>
    /\ fetches = 0
    /\ pauses = <<>>

NextReport ==
    \/ GenerateReport
    \/ SaveReport
    \/ NoArticles
    \/ Tick

SpecReport == InitReport /\ [][NextReport]_vars


\* ------------------------------------------------------------ properties
\* scrape_all_competitors has returned to run_daily_scrape
Returned ==
    \/ pc \in {"returned", "save", "done"}
    \/ pc = "raised" /\ raised = "OSError"

ScrapeErrors == {"fetch", "status", "parse"}

CountSource(articles, s) ==
    Cardinality({ k \in 1..Len(articles) : articles[k].source = s })

Failed(i) == served[i].resp.error # "none"

\* the number of articles the i-th processed competitor is due
BlockLen(i) ==
    IF Failed(i) THEN 0 ELSE Min(Len(served[i].resp.page), config.max_articles)

RECURSIVE Offset(_)
Offset(i) == IF i = 1 THEN 0 ELSE Offset(i - 1) + BlockLen(i - 1)

\* C1: Aggregation isolation. Whatever subset of competitors fails, no scrape
\* error leaves scrape_all_competitors, every competitor of the mapping has
\* been processed when it returns, a failed competitor contributes no
\* article, a competitor that answered contributes its articles, and nothing
\* else is in the result.
AggregationIsolation ==
    /\ raised \notin ScrapeErrors
    /\ Returned =>
          /\ Len(served) = Len(config.competitors)
          /\ \A i \in 1..Len(served) : served[i].name = config.competitors[i].name
    /\ \A i \in 1..Len(served) :
          CountSource(all_articles, served[i].name) = BlockLen(i)
    /\ \A k \in 1..Len(all_articles) :
          \E i \in 1..Len(served) :
              ~Failed(i) /\ served[i].name = all_articles[k].source

\* a competitor failed, a later one answered, and its articles are returned
IsolationWitness ==
    /\ Returned
    /\ Len(served) = 2
    /\ Failed(1)
    /\ ~Failed(2)
    /\ all_articles # <<>>

\* C2: Per-site bound. For every competitor of the mapping, the aggregated
\* sequence holds at most max_articles articles of that source.
PerSiteBound ==
    \A i \in 1..Len(config.competitors) :
        CountSource(all_articles, config.competitors[i].name) <= config.max_articles

\* a page with more matching elements than max_articles was cut to max_articles
PerSiteBoundWitness ==
    \E i \in 1..Len(served) :
        /\ ~Failed(i)
        /\ config.max_articles >= 1
        /\ Len(served[i].resp.page) > config.max_articles
        /\ CountSource(all_articles, served[i].name) = config.max_articles

\* C3: Aggregation order. Competitors are processed one at a time in mapping
\* order, and the result is the concatenation, in that order, of the blocks
\* of the competitors that answered, each block being the first max_articles
\* title elements in document order.
AggregationOrder ==
    /\ fetches = Len(served)
    /\ Len(served) = (IF pc = "sleep" THEN idx ELSE idx - 1)
    /\ Len(served) <= Len(config.competitors)
    /\ \A i \in 1..Len(served) : served[i].name = config.competitors[i].name
    /\ Len(all_articles) = Offset(Len(served) + 1)
    /\ \A i \in 1..Len(served) :
          \A k \in 1..BlockLen(i) :
              /\ all_articles[Offset(i) + k].source = served[i].name
              /\ all_articles[Offset(i) + k].title = Strip(served[i].resp.page[k].text)

\* two competitors answered; the first block has two different articles
AggregationOrderWitness ==
    /\ Returned
    /\ Len(served) = 2
    /\ BlockLen(1) = 2
    /\ BlockLen(2) >= 1
    /\ served[1].resp.page[1] # served[1].resp.page[2]

\* the sections of a rendered report, read back from its lines
RECURSIVE ParseSections(_, _)
ParseSections(lines, acc) ==
    IF lines = <<>> THEN acc
    ELSE LET l == Head(lines)
             n == Len(acc)
         IN IF l.kind = "section"
            THEN ParseSections(Tail(lines),
                     Append(acc, [source |-> l.a, count |-> l.b, items |-> <<>>]))
            ELSE IF l.kind = "title" /\ n > 0
            THEN ParseSections(Tail(lines),
                     [acc EXCEPT ![n].items = Append(@, [title |-> l.a, url |-> <<>>])])
            ELSE IF l.kind = "link" /\ n > 0 /\ acc[n].items # <<>>
            THEN ParseSections(Tail(lines),
                     [acc EXCEPT ![n].items[Len(acc[n].items)].url = l.a])
            ELSE ParseSections(Tail(lines), acc)

FirstIndex(articles, s) ==
    CHOOSE k \in 1..Len(articles) :
        articles[k].source = s /\ \A m \in 1..(k - 1) : articles[m].source # s

\* C4: Report grouping stability. The report has exactly one section per
\* distinct source, the sections come in the order in which the sources are
\* first met in the input, and a section lists its source's articles in
\* their original relative order.
ReportGroupingStable ==
    report # NoReport =>
        LET secs == ParseSections(report, <<>>)
            sources == { all_articles[k].source : k \in 1..Len(all_articles) }
        IN /\ { secs[i].source : i \in 1..Len(secs) } = sources
           /\ Len(secs) = Cardinality(sources)
           /\ \A i, j \in 1..Len(secs) :
                 i < j => FirstIndex(all_articles, secs[i].source)
                              < FirstIndex(all_articles, secs[j].source)
           /\ \A i \in 1..Len(secs) :
                 LET at == { k \in 1..Len(all_articles) :
                               all_articles[k].source = secs[i].source }
                 IN /\ Len(secs[i].items) = Cardinality(at)
                    /\ secs[i].count = Cardinality(at)
                    /\ \A k \in at :
                          LET r == Cardinality({ m \in at : m <= k })
                          IN /\ secs[i].items[r].title = all_articles[k].title
                             /\ secs[i].items[r].url = all_articles[k].url

\* a report rendered from sources interleaved as Y, X, Y
ReportGroupingWitness ==
    /\ report # NoReport
    /\ Len(all_articles) = 3
    /\ all_articles[1].source = "Y"
    /\ all_articles[2].source = "X"
    /\ all_articles[3].source = "Y"
    /\ all_articles[1].title # all_articles[3].title

NoArticlesLine == "No articles found during scraping."

\* C5: Empty-input contract. When the aggregation returns nothing, no report
\* is rendered, no file is written and "No articles found" is the outcome;
\* a file exists only in runs that collected an article.
EmptyInputContract ==
    /\ all_articles = <<>> => report = NoReport /\ files = {}
    /\ (pc = "done" /\ all_articles = <<>>) => stdout = NoArticlesLine
    /\ stdout = NoArticlesLine => all_articles = <<>> /\ files = {}
    /\ files # {} => all_articles # <<>>

\* a run in which every competitor failed or matched nothing has ended
EmptyInputWitness ==
    /\ pc = "done"
    /\ all_articles = <<>>
    /\ Len(served) = 2
    /\ Failed(1)
    /\ ~Failed(2)

ExpectedOrigin(blog_url) ==
    IF blog_url = UrlA THEN OriginA
    ELSE IF blog_url \in {UrlC, UrlC0} THEN OriginC
    ELSE blog_url

\* C6: URL absoluteness. The listing URLs being absolute, every aggregated
\* article's url is empty or begins with http: a link target that begins
\* with http is kept, an absent one becomes the empty string, any other
\* non-empty one is the listing URL's origin followed by the raw value.
UrlAbsolute ==
    /\ \A k \in 1..Len(all_articles) :
          all_articles[k].url = <<>> \/ StartsWith(all_articles[k].url, HTTP)
    /\ \A i \in 1..Len(served) :
          \A k \in 1..BlockLen(i) :
              LET el == served[i].resp.page[k]
                  url == all_articles[Offset(i) + k].url
              IN /\ ~el.has_href => url = <<>>
                 /\ (el.has_href /\ el.href = <<>>) => url = <<>>
                 /\ (el.has_href /\ StartsWith(el.href, HTTP)) => url = el.href
                 /\ (el.has_href /\ el.href # <<>> /\ ~StartsWith(el.href, HTTP)) =>
                       url = ExpectedOrigin(config.competitors[i].blog_url) \o el.href

\* a relative link target was resolved against a listing URL without a path
UrlAbsoluteWitness ==
    /\ Returned
    /\ Len(served) = 1
    /\ config.competitors[1].blog_url = UrlC0
    /\ \E k \in 1..Len(all_articles) : all_articles[k].url = OriginC \o RelSlash
    /\ \E k \in 1..Len(all_articles) : all_articles[k].url = AbsHttps

\* C7: Inter-competitor pacing. Each processed competitor is followed by one
\* pause of the configured delay, whatever its outcome: a fetch is preceded
\* by as many pauses as competitors were processed before it, and at return
\* there are as many pauses as competitors.
InterCompetitorPacing ==
    /\ pc = "sleep" => fetches = Len(pauses) + 1
    /\ pc # "sleep" => fetches = Len(pauses)
    /\ Returned => Len(pauses) = Len(config.competitors)
    /\ \A i \in 1..Len(pauses) : pauses[i] = config.delay_between_requests

\* both a failed competitor and one that matched nothing were followed by a pause
PacingWitness ==
    /\ Returned
    /\ Len(pauses) = 2
    /\ Failed(1)
    /\ ~Failed(2)
    /\ served[2].resp.page = <<>>

\* C8 as stated: no error ever leaves the run.
NoErrorEscapes == raised = "none" /\ pc # "raised"

\* C8 amended: a run goes on until it completes or an error leaves it; the
\* only errors that leave it are a malformed configuration file and a failed
\* write of the report. A missing configuration file and every scrape error
\* are caught.
ErrorContainment ==
    /\ raised \in {"none", "JSONDecodeError", "OSError"}
    /\ (pc = "raised") = (raised # "none")
    /\ raised = "JSONDecodeError" =>
          config_file.status = "malformed" /\ served = <<>> /\ files = {}
    /\ raised = "OSError" => report # NoReport /\ all_articles # <<>>
    /\ config_file.status = "missing" /\ pc # "load" => config = get_default_config
    /\ pc \notin {"done", "raised"} =>
          ENABLED (LoadConfig \/ ScrapeStep \/ Sleep \/ ReturnAll
                     \/ GenerateReport \/ SaveReport \/ NoArticles)

\* the write of the report failed in a run that had caught a scrape error
ErrorContainmentWitness ==
    /\ pc = "raised"
    /\ raised = "OSError"
    /\ \E i \in 1..Len(served) : Failed(i)

IsPrefix(s, t) == Len(s) <= Len(t) /\ SubSeq(t, 1, Len(s)) = s

\* C9: No rollback. Every step leaves the accumulated articles a prefix of
\* what they are after it.
NoRollback == [][IsPrefix(all_articles, all_articles')]_vars

\* a competitor failed after articles had been accumulated, and they are kept
NoRollbackWitness ==
    /\ Len(served) = 2
    /\ ~Failed(1)
    /\ Failed(2)
    /\ Len(all_articles) = 2

\* C10: Report date consistency. The date in a written file's name is the
\* date in the header of the report it holds.
ReportDateConsistent ==
    \A f \in files :
        \A k \in 1..Len(f.content) :
            f.content[k].kind = "date" => f.content[k].b = f.name

====
